---- MODULE Spec2Model ----
(***************************************************************************)
(* Model of script.js ("True Size of Countries"): selecting countries,     *)
(* dragging the selected polygons over the map, and the area-preserving    *)
(* rescale that runs on every drag step.                                   *)
(*                                                                         *)
(* Numbers.  The program computes in IEEE doubles; the model computes in   *)
(* fixed point.  Latitudes and longitudes are integers in units of 1/100   *)
(* degree, sines and scale factors are integers scaled by FixedOne.  An    *)
(* area is kept in the unit in which the edge sum of geodesicArea is an    *)
(* integer (the constant factor d2r * R^2 / 2 of the formula is the same   *)
(* for every area the program compares or divides, and is left out).       *)
(***************************************************************************)
EXTENDS Integers, Sequences, FiniteSets, TLC

VARIABLES
    layers,             \* every draggable polygon ever created, in creation order
    selectedCountries,  \* the registry: country name -> [layer, trueArea]
    mapDragging,        \* map.dragging enabled?
    calls,              \* rescalePolygon calls made by the last handler run
    moved,              \* layers whose mousemove body ran in the last handler run
    threw,              \* the last handler run ended in an uncaught exception
    last,               \* the last event delivered
    events,             \* number of events delivered so far
    areaIn,             \* input of the area calculator (pure-function runs)
    areaOut             \* its result

vars == <<layers, selectedCountries, mapDragging, calls, moved, threw, last,
          events, areaIn, areaOut>>

\* ------------------------------------------------------------------------
\* Bounds of the model
\* ------------------------------------------------------------------------
MaxEvents == 5
MaxLayers == 3

\* ------------------------------------------------------------------------
\* Fixed-point arithmetic standing for the doubles of the program
\* ------------------------------------------------------------------------
FixedOne == 10000

Abs(x) == IF x < 0 THEN -x ELSE x

\* n / d rounded to the nearest integer (d > 0)
RoundDiv(n, d) == (2 * n + d) \div (2 * d)

\* floor(a * 10^k / b) by long division, one decimal digit at a time
RECURSIVE LongDiv(_, _, _, _)
LongDiv(q, r, b, k) ==
    IF k = 0 THEN q
    ELSE LongDiv(10 * q + ((10 * r) \div b), (10 * r) % b, b, k - 1)

\* floor(sqrt(n)) by bisection on [lo, hi]
RECURSIVE SqrtBetween(_, _, _)
SqrtBetween(n, lo, hi) ==
    IF lo >= hi THEN lo
    ELSE LET mid == (lo + hi + 1) \div 2
         IN  IF mid * mid <= n THEN SqrtBetween(n, mid, hi)
             ELSE SqrtBetween(n, lo, mid - 1)

\* Math.sqrt(t / c) scaled by FixedOne, for t >= 0 and c > 0
SqrtRatio(t, c) == SqrtBetween(LongDiv(t \div c, t % c, c, 8), 0, 46340)

\* Math.sin(lat * d2r) scaled by FixedOne; lat in 1/100 degree.
\* Taylor series to x^9 in Horner form, x in radians scaled by FixedOne.
Sin(lat) ==
    LET x  == RoundDiv(lat * 31416, 18000)
        x2 == RoundDiv(x * x, FixedOne)
        t4 == FixedOne - RoundDiv(x2, 72)
        t3 == FixedOne - RoundDiv(x2 * t4, 42 * FixedOne)
        t2 == FixedOne - RoundDiv(x2 * t3, 20 * FixedOne)
        t1 == FixedOne - RoundDiv(x2 * t2, 6 * FixedOne)
    IN  RoundDiv(x * t1, FixedOne)

\* ------------------------------------------------------------------------
\* Geometry
\* ------------------------------------------------------------------------
LatLng(lat, lng) == [lat |-> lat, lng |-> lng]

\* L.GeometryUtil.geodesicArea(ring): 0 for fewer than 3 points, else the
\* absolute value of the sum over the edges p1 -> p2 (cyclic) of
\* (p2.lng - p1.lng) * (2 + sin p1.lat + sin p2.lat).
RECURSIVE EdgeSum(_, _)
EdgeSum(ring, i) ==
    IF i > Len(ring) THEN 0
    ELSE LET p1 == ring[i]
             p2 == ring[(i % Len(ring)) + 1]
         IN  (p2.lng - p1.lng) * (2 * FixedOne + Sin(p1.lat) + Sin(p2.lat))
             + EdgeSum(ring, i + 1)

geodesicArea(ring) == IF Len(ring) > 2 THEN Abs(EdgeSum(ring, 1)) ELSE 0

\* ------------------------------------------------------------------------
\* Coordinate arrays.  A value handed to calculateGeodesicArea, or held by a
\* Leaflet polygon as _latlngs, is a nested JavaScript array.  It is kept
\* as [d, polys]:
\*   d = 0  null / undefined                      polys = << >>
\*   d = 1  flat array of LatLng                  polys = << << pts >> >>
\*   d = 2  array of rings (Polygon)              polys = << rings >>
\*   d = 3  array of polygons (MultiPolygon),     polys = the polygons,
\*          each an array of rings
\* ------------------------------------------------------------------------
Null          == [d |-> 0, polys |-> << >>]
Flat(pts)     == [d |-> 1, polys |-> << << pts >> >>]
Rings(rings)  == [d |-> 2, polys |-> << rings >>]
Polys(polys)  == [d |-> 3, polys |-> polys]

\* latlngs.length
JsLength(x) ==
    CASE x.d = 1 -> Len(x.polys[1][1])
      [] x.d = 2 -> Len(x.polys[1])
      [] x.d = 3 -> Len(x.polys)
      [] OTHER   -> 0

\* Array.isArray(latlngs[0][0]), for latlngs of length > 0
FirstOfFirstIsArray(x) == x.d = 3 /\ Len(x.polys[1]) > 0

Returned(v) == [threw |-> FALSE, value |-> v]
Thrown      == [threw |-> TRUE,  value |-> 0]

\* Mutant of SumFirstRings: only the first polygon is measured, as if the
\* input were never a MultiPolygon.
SumFirstRingsFirstOnly(polys, i) ==
    IF Len(polys[1]) = 0 THEN Thrown ELSE Returned(geodesicArea(polys[1][1]))

\* totalArea += L.GeometryUtil.geodesicArea(polygon[0]) over the polygons
\* i..Len(polys); polygon[0] of a polygon without rings is undefined, and
\* geodesicArea(undefined) is a TypeError.
RECURSIVE SumFirstRings(_, _)
SumFirstRings(polys, i) ==
    IF i > Len(polys) THEN Returned(0)
    ELSE IF Len(polys[i]) = 0 THEN Thrown
    ELSE LET rest == SumFirstRings(polys, i + 1)
         IN  IF rest.threw THEN Thrown
             ELSE Returned(geodesicArea(polys[i][1]) + rest.value)

\* Mutant of calculateGeodesicArea: the guard for a missing or empty list
\* is gone, so latlngs[0][0] is read from null or from undefined.
calculateGeodesicAreaNoGuard(latlngs) ==
    IF latlngs.d = 0 \/ JsLength(latlngs) = 0 THEN Thrown
    ELSE IF FirstOfFirstIsArray(latlngs) THEN SumFirstRings(latlngs.polys, 1)
    ELSE CASE latlngs.d = 2 -> Returned(geodesicArea(latlngs.polys[1][1]))
           [] OTHER         -> Returned(0)

calculateGeodesicArea(latlngs) ==
    IF latlngs.d = 0 \/ JsLength(latlngs) = 0 THEN Returned(0)
    ELSE IF FirstOfFirstIsArray(latlngs) THEN SumFirstRings(latlngs.polys, 1)
    ELSE \* geodesicArea(latlngs[0])
         CASE latlngs.d = 1 -> Returned(0)      \* a LatLng has no length
           [] latlngs.d = 2 -> Returned(geodesicArea(latlngs.polys[1][1]))
           [] OTHER         -> Returned(0)      \* first polygon is []

\* ------------------------------------------------------------------------
\* countries.geojson, as layer.getLatLngs() gives it for each feature:
\* one country of each shape variant, all lying over the point (0, 0).
\* ------------------------------------------------------------------------
Rect(s, w, n, e) == << LatLng(s, w), LatLng(s, e), LatLng(n, e), LatLng(n, w) >>

Countries == {"Plain", "Holed", "Multi", "Line"}

CountryLatLngs(c) ==
    CASE c = "Plain" -> Rings(<< Rect(-2000, -1000, 2000, 1000) >>)
      [] c = "Holed" -> Rings(<< Rect(-1000, -1000, 1000, 1000),
                                 Rect(-500, -500, 500, 500) >>)
      [] c = "Multi" -> Polys(<< << Rect(-1000, -1000, 1000, 0),
                                    Rect(-500, -800, 500, -200) >>,
                                 << Rect(-1000, 500, 1000, 1500) >> >>)
      [] OTHER       -> Rings(<< << LatLng(0, -1000), LatLng(0, 1000) >> >>)

\* the positions the pointer takes, e.latlng
Positions == { LatLng(0, 0), LatLng(6000, 0), LatLng(6000, 500) }

\* ------------------------------------------------------------------------
\* Leaflet polygon operations used by the program
\* ------------------------------------------------------------------------
\* layer.getLatLngs()[0]: the first ring of a Polygon, the first polygon
\* (an array of rings) of a MultiPolygon
FirstIsRing(latlngs) == latlngs.d = 2

\* layer.setLatLngs(flat array of LatLng): a flat array becomes the only
\* ring of the polygon
setLatLngs(pts) == Rings(<< pts >>)

\* layer.getCenter(): the centre of the first ring of the first polygon,
\* taken as the average of its vertices
RECURSIVE SumLat(_, _)
SumLat(ring, i) == IF i > Len(ring) THEN 0 ELSE ring[i].lat + SumLat(ring, i + 1)
RECURSIVE SumLng(_, _)
SumLng(ring, i) == IF i > Len(ring) THEN 0 ELSE ring[i].lng + SumLng(ring, i + 1)

getCenter(latlngs) ==
    LET ring == latlngs.polys[1][1]
    IN  LatLng(RoundDiv(SumLat(ring, 1), Len(ring)),
               RoundDiv(SumLng(ring, 1), Len(ring)))

\* all rings of a polygon layer, whatever its nesting
RECURSIVE AllRings(_, _)
AllRings(polys, i) ==
    IF i > Len(polys) THEN << >> ELSE polys[i] \o AllRings(polys, i + 1)

InBox(p, ring) ==
    /\ Len(ring) > 0
    /\ \E i, j \in 1..Len(ring) : ring[i].lat <= p.lat /\ p.lat <= ring[j].lat
    /\ \E i, j \in 1..Len(ring) : ring[i].lng <= p.lng /\ p.lng <= ring[j].lng

\* the pointer is over the layer (a mousedown reaches the layer's handler)
PointerOver(p, layer) ==
    /\ layer.onMap
    /\ \E k \in 1..Len(AllRings(layer.latlngs.polys, 1)) :
           InBox(p, AllRings(layer.latlngs.polys, 1)[k])

\* ------------------------------------------------------------------------
\* rescalePolygon(layer, trueArea)
\* ------------------------------------------------------------------------
\* center + (v - center) * scaleFactor, on lat and lng independently
ScalePoint(v, center, scaleFactor) ==
    LatLng(center.lat + RoundDiv((v.lat - center.lat) * scaleFactor, FixedOne),
           center.lng + RoundDiv((v.lng - center.lng) * scaleFactor, FixedOne))

ScaleRing(ring, center, scaleFactor) ==
    [i \in 1..Len(ring) |-> ScalePoint(ring[i], center, scaleFactor)]

\* Mutant of rescalePolygon: the guard against a current area of 0 is gone;
\* the scale factor is then NaN or Infinity and L.latLng throws on NaN.
rescalePolygonNoZeroGuard(layer, trueArea) ==
    LET current == calculateGeodesicArea(layer.latlngs)
    IN  IF ~layer.onMap \/ current.threw \/ current.value = 0
               \/ ~FirstIsRing(layer.latlngs)
            THEN [layer |-> layer, outcome |-> "threw", trueArea |-> trueArea]
        ELSE [layer |-> [layer EXCEPT !.latlngs =
                            setLatLngs(ScaleRing(layer.latlngs.polys[1][1],
                                getCenter(layer.latlngs),
                                SqrtRatio(trueArea, current.value)))],
              outcome |-> "replaced", trueArea |-> trueArea]

\* The outcome of one call on a layer: the layer after the call and how the
\* call ended: "replaced" (setLatLngs called), "noop" (the early return) or
\* "threw".
\*  - layer.getCenter() throws when the layer is not on the map;
\*  - latlngs.map(...) over the first polygon of a MultiPolygon reads .lat
\*    of a ring, which is undefined: L.latLng(NaN, NaN) throws.
rescalePolygon(layer, trueArea) ==
    LET current == calculateGeodesicArea(layer.latlngs)
        center  == getCenter(layer.latlngs)
        scaleFactor == SqrtRatio(trueArea, current.value)
    IN  IF ~layer.onMap \/ current.threw
            THEN [layer |-> layer, outcome |-> "threw", trueArea |-> trueArea]
        ELSE IF current.value = 0
            THEN [layer |-> layer, outcome |-> "noop", trueArea |-> trueArea]
        ELSE IF ~FirstIsRing(layer.latlngs)
            THEN [layer |-> layer, outcome |-> "threw", trueArea |-> trueArea]
        ELSE [layer |-> [layer EXCEPT !.latlngs =
                            setLatLngs(ScaleRing(layer.latlngs.polys[1][1],
                                                 center, scaleFactor))],
              outcome |-> "replaced", trueArea |-> trueArea]

\* Mutant of DragListener: the target area is taken from the dragged copy
\* instead of the trueArea fixed at selection.
DragListenerRecomputes(draggedLayer) ==
    rescalePolygon(draggedLayer, calculateGeodesicArea(draggedLayer.latlngs).value)

\* draggablePolygon.on('drag', ...): the listener of selectCountry, which
\* passes the trueArea it closed over (kept in the model with the layer)
DragListener(draggedLayer) == rescalePolygon(draggedLayer, draggedLayer.trueArea)

\* what the model records of one call
Call(i, layer, res) ==
    [layer |-> i, trueArea |-> res.trueArea, outcome |-> res.outcome,
     before |-> layer.latlngs, after |-> res.layer.latlngs]

\* ------------------------------------------------------------------------
\* enableDragging(layer): the three handlers of one layer
\* ------------------------------------------------------------------------
TranslateRing(ring, latDelta, lngDelta) ==
    [i \in 1..Len(ring) |-> LatLng(ring[i].lat + latDelta, ring[i].lng + lngDelta)]

\* The map mousemove handler of layer i, then the handlers of the layers
\* registered after it.  st = [layers, calls, moved, threw].  An exception
\* leaves the handler and map.fire: the later handlers do not run.
RECURSIVE MouseMoveFrom(_, _, _)
MouseMoveFrom(st, i, e) ==
    IF i > Len(st.layers) THEN st
    ELSE LET layer == st.layers[i]
         IN  IF ~layer.isDragging THEN MouseMoveFrom(st, i + 1, e)
             ELSE IF ~FirstIsRing(layer.latlngs)
                 \* L.latLng(NaN, NaN) throws inside latLngs.map
                 THEN [st EXCEPT !.moved = @ \cup {i}, !.threw = TRUE]
             ELSE LET prev == layer.previousLatLng[1]
                      shifted == [layer EXCEPT
                          !.latlngs = setLatLngs(TranslateRing(
                              layer.latlngs.polys[1][1],
                              e.lat - prev.lat, e.lng - prev.lng)),
                          !.previousLatLng = << e >>]
                      \* layer.fire('drag', ...)
                      res == DragListener(shifted)
                      st2 == [st EXCEPT
                          !.layers[i] = res.layer,
                          !.calls = Append(@, Call(i, shifted, res)),
                          !.moved = @ \cup {i},
                          !.threw = (res.outcome = "threw")]
                  IN  IF st2.threw THEN st2 ELSE MouseMoveFrom(st2, i + 1, e)

Handled(ls) == [layers |-> ls, calls |-> << >>, moved |-> {}, threw |-> FALSE]

\* ------------------------------------------------------------------------
\* State machine
\* ------------------------------------------------------------------------
NoLatLng == LatLng(0, 0)
Event(type, country, layer, latlng) ==
    [type |-> type, country |-> country, layer |-> layer, latlng |-> latlng]

NotComputed == [threw |-> FALSE, value |-> -1]

Init ==
    /\ layers = << >>
    /\ selectedCountries = << >>
    /\ mapDragging = TRUE
    /\ calls = << >>
    /\ moved = {}
    /\ threw = FALSE
    /\ last = Event("init", "", 0, NoLatLng)
    /\ events = 0
    /\ areaIn = Null
    /\ areaOut = NotComputed

\* L.polygon(latlngs, ...).addTo(map) followed by enableDragging: the new
\* layer with its closure variables isDragging, previousLatLng and, for
\* the drag listener, trueArea
NewLayer(countryName, latlngs, trueArea) ==
    [country |-> countryName, latlngs |-> latlngs, onMap |-> TRUE,
     isDragging |-> FALSE, previousLatLng |-> << >>, trueArea |-> trueArea]

\* selectedCountries.set(countryName, {layer, trueArea})
RegistrySet(registry, countryName, entry) ==
    [c \in DOMAIN registry \cup {countryName} |->
        IF c = countryName THEN entry ELSE registry[c]]

\* Mutant of RegistryHas: the check against re-selecting is missing.
RegistryHasNever(registry, countryName) == FALSE

\* selectedCountries.has(countryName)
RegistryHas(registry, countryName) == countryName \in DOMAIN registry

\* selectCountry(feature, layer): a click on a country, or the search box
SelectCountry(countryName) ==
    /\ events < MaxEvents
    /\ events' = events + 1
    /\ last' = Event("select", countryName, 0, NoLatLng)
    /\ moved' = {}
    /\ UNCHANGED <<mapDragging, areaIn, areaOut>>
    /\ IF RegistryHas(selectedCountries, countryName)
       THEN /\ calls' = << >>
            /\ threw' = FALSE
            /\ UNCHANGED <<layers, selectedCountries>>
       ELSE /\ Len(layers) < MaxLayers
            /\ LET latlngs  == CountryLatLngs(countryName)
                   trueArea == calculateGeodesicArea(latlngs)
                   i        == Len(layers) + 1
                   draggablePolygon == NewLayer(countryName, latlngs, trueArea.value)
                   res      == rescalePolygon(draggablePolygon, trueArea.value)
               IN  IF trueArea.threw
                   THEN /\ threw' = TRUE
                        /\ calls' = << >>
                        /\ UNCHANGED <<layers, selectedCountries>>
                   ELSE /\ layers' = Append(layers, res.layer)
                        /\ selectedCountries' = RegistrySet(selectedCountries,
                               countryName, [layer |-> i, trueArea |-> trueArea.value])
                        /\ calls' = << Call(i, draggablePolygon, res) >>
                        /\ threw' = (res.outcome = "threw")

\* layer.on('mousedown'): the pointer goes down over layer i at e
MouseDown(i, e) ==
    /\ events < MaxEvents
    /\ PointerOver(e, layers[i])
    /\ events' = events + 1
    /\ last' = Event("mousedown", layers[i].country, i, e)
    /\ layers' = [layers EXCEPT ![i].isDragging = TRUE, ![i].previousLatLng = << e >>]
    /\ mapDragging' = FALSE
    /\ calls' = << >>
    /\ moved' = {}
    /\ threw' = FALSE
    /\ UNCHANGED <<selectedCountries, areaIn, areaOut>>

\* map.on('mousemove'): every handler registered so far, in order
MouseMove(e) ==
    /\ events < MaxEvents
    /\ events' = events + 1
    /\ last' = Event("mousemove", "", 0, e)
    /\ LET st == MouseMoveFrom(Handled(layers), 1, e)
       IN  /\ layers' = st.layers
           /\ calls' = st.calls
           /\ moved' = st.moved
           /\ threw' = st.threw
    /\ UNCHANGED <<selectedCountries, mapDragging, areaIn, areaOut>>

\* map.on('mouseup'): every handler registered so far
MouseUp ==
    /\ events < MaxEvents
    /\ events' = events + 1
    /\ last' = Event("mouseup", "", 0, NoLatLng)
    /\ layers' = [i \in 1..Len(layers) |-> [layers[i] EXCEPT !.isDragging = FALSE]]
    /\ mapDragging' = (mapDragging \/ \E i \in 1..Len(layers) : layers[i].isDragging)
    /\ calls' = << >>
    /\ moved' = {}
    /\ threw' = FALSE
    /\ UNCHANGED <<selectedCountries, areaIn, areaOut>>

\* the clear button
Clear ==
    /\ events < MaxEvents
    /\ events' = events + 1
    /\ last' = Event("clear", "", 0, NoLatLng)
    /\ layers' = [i \in 1..Len(layers) |->
                    IF \E c \in DOMAIN selectedCountries : selectedCountries[c].layer = i
                    THEN [layers[i] EXCEPT !.onMap = FALSE] ELSE layers[i]]
    /\ selectedCountries' = << >>
    /\ calls' = << >>
    /\ moved' = {}
    /\ threw' = FALSE
    /\ UNCHANGED <<mapDragging, areaIn, areaOut>>

Next ==
    \/ \E c \in Countries : SelectCountry(c)
    \/ \E i \in 1..Len(layers) : \E e \in Positions : MouseDown(i, e)
    \/ \E e \in Positions : MouseMove(e)
    \/ MouseUp
    \/ Clear

Spec == Init /\ [][Next]_vars

\* ------------------------------------------------------------------------
\* The area calculator on its own: calculateGeodesicArea applied to one
\* input drawn from a bounded set of coordinate arrays
\* ------------------------------------------------------------------------
MaxRingsPerPolygon == 2
MaxPolygons == 2

SeqsUpTo(S, n) == UNION { [1..k -> S] : k \in 0..n }

\* rings with 0, 1, 2, 3 and 4 points, in both orientations
SampleRings ==
    { << >>,
      << LatLng(0, 0) >>,
      << LatLng(0, 0), LatLng(0, 1000) >>,
      << LatLng(0, 0), LatLng(0, 1000), LatLng(1000, 1000) >>,
      << LatLng(1000, 1000), LatLng(0, 1000), LatLng(0, 0) >>,
      Rect(0, 0, 1000, 1000),
      Rect(3000, -500, 5000, 500) }

\* the rings the polygons of a MultiPolygon input are built from
SamplePolygonRings ==
    { << LatLng(0, 0), LatLng(0, 1000) >>,
      << LatLng(0, 0), LatLng(0, 1000), LatLng(1000, 1000) >>,
      Rect(3000, -500, 5000, 500) }

AreaInputs ==
    {Null}
    \cup { Flat(r) : r \in SampleRings }
    \cup { Rings(rs) : rs \in SeqsUpTo(SampleRings, MaxRingsPerPolygon) \ {<< >>} }
    \cup { Polys(ps) :
             ps \in SeqsUpTo(SeqsUpTo(SamplePolygonRings, MaxRingsPerPolygon),
                             MaxPolygons) \ {<< >>, << << >> >>} }

InitArea ==
    /\ layers = << >>
    /\ selectedCountries = << >>
    /\ mapDragging = TRUE
    /\ calls = << >>
    /\ moved = {}
    /\ threw = FALSE
    /\ last = Event("init", "", 0, NoLatLng)
    /\ events = 0
    /\ areaIn \in AreaInputs
    /\ areaOut = NotComputed

CalculateArea ==
    /\ areaOut = NotComputed
    /\ areaOut' = calculateGeodesicArea(areaIn)
    /\ last' = Event("area", "", 0, NoLatLng)
    /\ UNCHANGED <<layers, selectedCountries, mapDragging, calls, moved, threw,
                   events, areaIn>>

SpecArea == InitArea /\ [][CalculateArea]_vars

\* ------------------------------------------------------------------------
\* Properties
\* ------------------------------------------------------------------------
\* the area of the original, unmodified geometry of a country
OriginalArea(c) == calculateGeodesicArea(CountryLatLngs(c)).value

AreaOf(latlngs) == calculateGeodesicArea(latlngs).value

\* the calls of rescalePolygon on layer i in the last handler run
CallsOn(i) == { k \in 1..Len(calls) : calls[k].layer = i }

Registered(i) == \E c \in DOMAIN selectedCountries : selectedCountries[c].layer = i

\* C1: the trueArea held in the registry, the trueArea closed over by the
\* drag listener and the trueArea passed to every rescalePolygon call are
\* the area of the country's original geometry, whatever has happened to
\* the draggable copy since.
TrueAreaIsOriginalArea ==
    /\ \A c \in DOMAIN selectedCountries :
          /\ selectedCountries[c].trueArea = OriginalArea(c)
          /\ layers[selectedCountries[c].layer].country = c
          /\ layers[selectedCountries[c].layer].trueArea = OriginalArea(c)
    /\ \A k \in 1..Len(calls) :
          calls[k].trueArea = OriginalArea(layers[calls[k].layer].country)

\* C1 witness: a registered shape has been dragged away from its original
\* geometry, its area there differs from trueArea, and it was rescaled.
TrueAreaWitness ==
    /\ last.type = "mousemove"
    /\ \E k \in 1..Len(calls) :
          /\ calls[k].outcome = "replaced"
          /\ Registered(calls[k].layer)
          /\ AreaOf(calls[k].before) # calls[k].trueArea
          /\ calls[k].before # CountryLatLngs(layers[calls[k].layer].country)

\* C2: every mousemove handled for a dragged shape that is still on the map
\* calls rescalePolygon on that shape exactly once.
OneRescalePerDragEvent ==
    last.type = "mousemove" =>
        \A i \in moved : layers[i].onMap => Cardinality(CallsOn(i)) = 1

\* C3: no call of rescalePolygon ends in an error.
RescaleNeverThrows ==
    \A k \in 1..Len(calls) : calls[k].outcome \in {"replaced", "noop"}

\* C4: after a rescale that replaced the vertices, the computed area equals
\* trueArea.  The model's arithmetic resolves about 1 part in 1000, so the
\* tolerance stated here is 1 part in 200, far wider than the 1e-6 claimed.
RescaleReachesTrueArea ==
    \A k \in 1..Len(calls) :
        calls[k].outcome = "replaced" =>
            200 * Abs(AreaOf(calls[k].after) - calls[k].trueArea) <= calls[k].trueArea

\* C5: a rescale of a shape whose computed area is 0 never replaces the
\* vertices: it is the silent no-op when the shape is on the map, and the
\* layer holds afterwards the vertices it held when the call began.
ZeroAreaRescaleChangesNothing ==
    \A k \in 1..Len(calls) :
        (calculateGeodesicArea(calls[k].before) = Returned(0)) =>
            /\ calls[k].outcome # "replaced"
            /\ layers[calls[k].layer].onMap => calls[k].outcome = "noop"
            /\ calls[k].after = calls[k].before
            /\ layers[calls[k].layer].latlngs = calls[k].before

\* C5 witness: a zero-area shape was dragged and its rescale was a no-op.
ZeroAreaWitness ==
    /\ last.type = "mousemove"
    /\ \E k \in 1..Len(calls) :
          /\ calculateGeodesicArea(calls[k].before) = Returned(0)
          /\ calls[k].outcome = "noop"
          /\ calls[k].before # CountryLatLngs(layers[calls[k].layer].country)

\* two coordinate arrays of the same structure whose vertices differ by at
\* most the model's rounding (2/100 degree)
SameRing(r1, r2) ==
    /\ Len(r1) = Len(r2)
    /\ \A i \in 1..Len(r1) :
          Abs(r1[i].lat - r2[i].lat) <= 2 /\ Abs(r1[i].lng - r2[i].lng) <= 2

SameShape(x, y) ==
    /\ x.d = y.d
    /\ Len(x.polys) = Len(y.polys)
    /\ \A p \in 1..Len(x.polys) :
          /\ Len(x.polys[p]) = Len(y.polys[p])
          /\ \A r \in 1..Len(x.polys[p]) : SameRing(x.polys[p][r], y.polys[p][r])

\* C6: a mousemove at the last recorded pointer position, with the rescale
\* it triggers, leaves the vertices of a dragged shape that is on the map
\* unchanged.
NullMoveIsFixedPoint ==
    [][\A i \in 1..Len(layers) :
          (/\ last'.type = "mousemove"
           /\ events' = events + 1
           /\ layers[i].isDragging
           /\ layers[i].onMap
           /\ layers[i].previousLatLng = << last'.latlng >>)
          => SameShape(layers'[i].latlngs, layers[i].latlngs)]_vars

\* the polygons on the map
Live == { i \in 1..Len(layers) : layers[i].onMap }

\* C7: selecting a country that is in the registry changes nothing and
\* calls nothing, and at every state each country name has at most one
\* polygon on the map, the one the registry holds.
ReselectIsNoOp ==
    /\ [][(/\ last'.type = "select"
           /\ events' = events + 1
           /\ last'.country \in DOMAIN selectedCountries)
          => /\ layers' = layers
             /\ selectedCountries' = selectedCountries
             /\ mapDragging' = mapDragging
             /\ calls' = << >>
             /\ ~threw']_vars
    /\ [](/\ \A i, j \in Live : layers[i].country = layers[j].country => i = j
          /\ \A i \in Live : /\ layers[i].country \in DOMAIN selectedCountries
                             /\ selectedCountries[layers[i].country].layer = i)

\* C7 witness: a country in the registry, already dragged and rescaled, was
\* selected again.
ReselectWitness ==
    /\ last.type = "select"
    /\ calls = << >>
    /\ last.country \in DOMAIN selectedCountries
    /\ layers[selectedCountries[last.country].layer].latlngs
           # CountryLatLngs(last.country)
    /\ layers[selectedCountries[last.country].layer].isDragging

\* C8: clear empties the registry and takes every selected polygon off the
\* map, and no later event changes the vertices of a polygon that is off
\* the map.
ClearDiscardsShapes ==
    [][/\ (last'.type = "clear" /\ events' = events + 1)
            => /\ DOMAIN selectedCountries' = {}
               /\ \A i \in 1..Len(layers') : ~layers'[i].onMap
       /\ \A i \in 1..Len(layers) :
            ~layers[i].onMap => layers'[i].latlngs = layers[i].latlngs]_vars

\* the sum of f over the index set S
RECURSIVE SumOver(_, _)
SumOver(S, f) ==
    IF S = {} THEN 0
    ELSE LET i == CHOOSE j \in S : TRUE IN f[i] + SumOver(S \ {i}, f)

Computed == last.type = "area"

\* a MultiPolygon input in which every polygon has a ring
WellFormedMulti(x) ==
    x.d = 3 /\ \A p \in 1..Len(x.polys) : Len(x.polys[p]) > 0

\* C9 as stated: the result is the sum of the areas of every ring of the
\* input, each taken on its own.
AreaSumsEveryRing ==
    (Computed /\ (areaIn.d = 2 \/ WellFormedMulti(areaIn))) =>
        LET rings == AllRings(areaIn.polys, 1)
        IN  areaOut = Returned(SumOver(1..Len(rings),
                                       [k \in 1..Len(rings) |-> geodesicArea(rings[k])]))

\* C9 amended: the result is the sum over the polygons of the area of the
\* polygon's first (outer) ring; for a Polygon input it is the area of the
\* first ring; the further rings of a polygon add and subtract nothing.
AreaSumsOuterRings ==
    (Computed /\ (areaIn.d = 2 \/ WellFormedMulti(areaIn))) =>
        areaOut = Returned(SumOver(1..Len(areaIn.polys),
                     [p \in 1..Len(areaIn.polys) |-> geodesicArea(areaIn.polys[p][1])]))

\* C9 witness: the area of a MultiPolygon of two polygons, one of them with
\* a second ring of non-zero area, has been computed.
AreaSumWitness ==
    /\ Computed
    /\ WellFormedMulti(areaIn)
    /\ Len(areaIn.polys) = 2
    /\ geodesicArea(areaIn.polys[1][1]) > 0
    /\ geodesicArea(areaIn.polys[2][1]) > 0
    /\ \E p \in 1..2 : Len(areaIn.polys[p]) > 1 /\ geodesicArea(areaIn.polys[p][2]) > 0
    /\ areaOut.value > geodesicArea(areaIn.polys[1][1])

\* a missing or empty coordinate list, or rings with fewer than 3 points only
Degenerate(x) ==
    \/ x.d = 0
    \/ JsLength(x) = 0
    \/ /\ x.d \in {1, 2} \/ WellFormedMulti(x)
       /\ \A k \in 1..Len(AllRings(x.polys, 1)) : Len(AllRings(x.polys, 1)[k]) < 3

\* C10: the area of a degenerate input is 0, and computing it raises no
\* error.
DegenerateAreaIsZero ==
    (Computed /\ Degenerate(areaIn)) => areaOut = Returned(0)

\* C10 witness: the area of an input whose rings are not empty but have
\* fewer than 3 points has been computed.
DegenerateWitness ==
    /\ Computed
    /\ Degenerate(areaIn)
    /\ areaIn.d \in {2, 3}
    /\ \E k \in 1..Len(AllRings(areaIn.polys, 1)) : Len(AllRings(areaIn.polys, 1)[k]) = 2
    /\ areaOut = Returned(0)

\* ------------------------------------------------------------------------
\* Drag steps and the structure of a shape
\* ------------------------------------------------------------------------
\* every vertex of every ring of x moved by (latDelta, lngDelta)
TranslateShape(x, latDelta, lngDelta) ==
    [x EXCEPT !.polys =
        [p \in 1..Len(x.polys) |->
            [r \in 1..Len(x.polys[p]) |->
                TranslateRing(x.polys[p][r], latDelta, lngDelta)]]]

\* every vertex v of every ring of x replaced by c + (v - c) * f
ScaleShape(x, c, f) ==
    [x EXCEPT !.polys =
        [p \in 1..Len(x.polys) |->
            [r \in 1..Len(x.polys[p]) |-> ScaleRing(x.polys[p][r], c, f)]]]

\* the nesting of x and the number of vertices of each of its rings
Structure(x) ==
    [d |-> x.d,
     rings |-> [p \in 1..Len(x.polys) |->
                  [r \in 1..Len(x.polys[p]) |-> Len(x.polys[p][r])]]]

PointerStep(types) == last'.type \in types /\ events' = events + 1

\* C11: a mousemove translates every vertex of each shape that is on the
\* map and being dragged by (event position - last pointer position),
\* records the event position and then calls the rescaler on the
\* translated shape; a shape that is not being dragged keeps its vertices
\* and its last pointer position.
DragStepTranslatesThenRescales ==
    [][PointerStep({"mousemove"}) =>
         \A i \in 1..Len(layers) :
            /\ (layers[i].isDragging /\ layers[i].onMap) =>
                 /\ layers'[i].previousLatLng = << last'.latlng >>
                 /\ \E k \in 1..Len(calls') :
                       /\ calls'[k].layer = i
                       /\ calls'[k].before = TranslateShape(layers[i].latlngs,
                             last'.latlng.lat - layers[i].previousLatLng[1].lat,
                             last'.latlng.lng - layers[i].previousLatLng[1].lng)
            /\ ~layers[i].isDragging =>
                 /\ layers'[i].latlngs = layers[i].latlngs
                 /\ layers'[i].previousLatLng = layers[i].previousLatLng]_vars

\* C12: every call of rescalePolygon and every drag step leaves a shape
\* with the rings and the vertex counts it had; a rescale that replaces
\* the vertices replaces each v by center + (v - center) * scaleFactor.
ShapeStructurePreserved ==
    [][/\ \A k \in 1..Len(calls') :
            /\ Structure(calls'[k].after) = Structure(calls'[k].before)
            /\ calls'[k].outcome = "replaced" =>
                 calls'[k].after = ScaleShape(calls'[k].before,
                     getCenter(calls'[k].before),
                     SqrtRatio(calls'[k].trueArea, AreaOf(calls'[k].before)))
       /\ \A i \in 1..Len(layers) :
            Structure(layers'[i].latlngs) = Structure(layers[i].latlngs)]_vars

\* C13: pointer events leave the keys of the registry as they are, and the
\* mousemove that follows a mousedown on shape A leaves the vertices and
\* the trueArea of every other selected shape as they are.
DragMutatesOnlyTarget ==
    [][PointerStep({"mousedown", "mousemove", "mouseup"}) =>
         /\ DOMAIN selectedCountries' = DOMAIN selectedCountries
         /\ (last.type = "mousedown" /\ last'.type = "mousemove") =>
              \A c \in DOMAIN selectedCountries :
                 LET b == selectedCountries[c].layer
                 IN  b # last.layer =>
                       /\ layers'[b].latlngs = layers[b].latlngs
                       /\ layers'[b].trueArea = layers[b].trueArea
                       /\ selectedCountries'[c] = selectedCountries[c]]_vars

\* C14: at most one polygon on the map has isDragging = true.
AtMostOneDragging ==
    Cardinality({ i \in Live : layers[i].isDragging }) <= 1

\* C15: map.dragging is disabled exactly when a shape of the registry has
\* isDragging = true; after a mouseup on the map and after clear it is
\* enabled.
PanningDisabledIffDragging ==
    /\ ~mapDragging <=> \E i \in 1..Len(layers) : Registered(i) /\ layers[i].isDragging
    /\ last.type \in {"mouseup", "clear"} => mapDragging

====
